---- MODULE Spec2Model ----
(***************************************************************************)
(* Weighted vote ledger of gameplay-labs: the plpgsql functions cast_vote  *)
(* and undo_vote, the vote_weight function and the votes/videos tables,    *)
(* run as PostgreSQL READ COMMITTED transactions (one per RPC call).       *)
(*                                                                         *)
(* Every statement of a function body is one step of the calling           *)
(* transaction: it reads the rows committed when the statement starts plus *)
(* the transaction's own uncommitted changes, and its writes stay private  *)
(* until Commit publishes them all at once.                                *)
(*                                                                         *)
(* The feed is the GET handler of /api/videos: it parses the query string, *)
(* builds the filters and the ORDER BY of one SELECT on videos, and turns   *)
(* the last row of a full page into nextCursor, which VideoFeed.loadMore    *)
(* sends back as cursor parameters.                                        *)
(*                                                                         *)
(* The web tier is the route /api/votes (authentication, the in-memory     *)
(* rate limiter, validation, the RPC call and the status made of its       *)
(* result), the useVote hook with its optimistic update and rollback, and  *)
(* the VideoFeed component with its requests in flight.                    *)
(***************************************************************************)
EXTENDS Integers, Sequences, FiniteSets, TLC

VARIABLES now, votes, vote_count, elsewhere, trigger_installed, tx, last, ncalls,
          granted, videos, feed, clock, rateLimitStore, recent, http, ui, vf

\* the variables of the feed: the other columns of videos, and the last
\* GET /api/videos request with its response
feedvars == <<videos, feed>>

\* the variables of the web tier: the clock of the server (Date.now()), the
\* rate limiter's map, the cast_vote calls made by POST /api/votes in each of
\* the clock ticks of the last minute, the request in the votes route, the
\* state of a useVote hook and the state of a VideoFeed component
webvars == <<clock, rateLimitStore, recent, http, ui, vf>>

vars == <<now, votes, vote_count, elsewhere, trigger_installed, tx, last, ncalls,
          granted, feedvars, webvars>>

----------------------------------------------------------------------------
(* Bounds of the model *)

\* last clock tick of a behaviour
MaxNow == 2
\* clock ticks in one UTC day
TicksPerDay == 2
\* RPC calls started in one behaviour of serial calls
MaxCalls == 3
\* RPC calls started in one behaviour of concurrent calls
MaxConcCalls == 2
\* RPC calls made while one listing is read page by page
MaxFeedCalls == 2
\* last tick of the server's clock
MaxClock == 2
\* requests counted by the rate limiter beyond its limit in one window
MaxOver == 1
\* handleVote calls of one behaviour
MaxHookCalls == 3
\* requests of one VideoFeed in one behaviour
MaxVfRequests == 3
\* the page size of VideoFeed (limit=12 in the component), scaled to the
\* datasets of three videos
VfLimit == 1

----------------------------------------------------------------------------
(* Identities *)

\* auth.uid() of an unauthenticated request
NULL == "NULL"

\* The weighted accounts of vote_weight.sql. The placeholder of the account
\* its header marks "(admin)" stands for the first admin UUID of cast_vote.
TODO_ADMIN_EMAIL_UUID == "e570e7ed-d901-4af3-b1a1-77e57772a51c"
TODO_EBEFE_UUID == "TODO_EBEFE_UUID"
TODO_MARLI_UUID == "TODO_MARLI_UUID"

\* The admin list of cast_vote (the same two ids as ADMIN_USER_IDS).
ADMIN_USER_IDS ==
  {"e570e7ed-d901-4af3-b1a1-77e57772a51c", "afb20822-fc72-42a5-8491-d9d4a96ff5b6"}

\* The callers of a behaviour: the weighted admin, a weighted account that is
\* not an admin (three weighted accounts, two admin ids), an ordinary user.
Voters == {TODO_ADMIN_EMAIL_UUID, TODO_MARLI_UUID, "user-1"}

\* rows of the videos table
VideoIds == {1, 2, 3}

\* The requests of a behaviour, <<auth.uid(), p_video_id>>: every caller on
\* video 1, the ordinary user also on video 2 and on 4, which is no video,
\* and an unauthenticated request.
Requests ==
  {<<u, 1>> : u \in Voters} \cup {<<"user-1", 2>>, <<"user-1", 4>>, <<NULL, 1>>}

\* the database connections
Procs == {1, 2, 3}

\* the connections of the behaviours of two concurrent calls
ConcProcs == {1, 2}

\* daily vote cap of cast_vote
DailyLimit == 200

----------------------------------------------------------------------------
(* vote_weight.sql *)

vote_weight(p_user_id) ==
  CASE p_user_id = TODO_ADMIN_EMAIL_UUID -> 33
    [] p_user_id = TODO_EBEFE_UUID -> 21
    [] p_user_id = TODO_MARLI_UUID -> 17
    [] OTHER -> 1

\* v_is_admin of cast_vote
is_admin_nobody(v_user_id) == FALSE

is_admin_anybody(v_user_id) == TRUE

is_admin(v_user_id) == v_user_id \in ADMIN_USER_IDS

----------------------------------------------------------------------------
(* Tables and snapshots *)

\* a row of votes: UNIQUE(video_id, user_id), created_at DEFAULT NOW()
VoteRow(video_id, user_id, created_at) ==
  [video_id |-> video_id, user_id |-> user_id, created_at |-> created_at]

RECURSIVE SumWeights(_)
\* SUM(public.vote_weight(votes.user_id)) over a set of rows
SumWeights(rows) ==
  IF rows = {} THEN 0
  ELSE LET r == CHOOSE x \in rows : TRUE
       IN vote_weight(r.user_id) + SumWeights(rows \ {r})

\* A transaction in flight is one whose function body has started and has
\* not returned.
InFlight(p) == tx[p].pc # "idle"

\* The rows of votes a statement of transaction p reads: the committed rows,
\* without the ones p deleted, with the ones p inserted.
SnapshotCommitted(p) == votes

Snapshot(p) == (votes \ tx[p].del) \cup tx[p].ins

\* What a reader outside every transaction (the feed's SELECT) can see of one
\* video: the users with a committed vote row, and the committed vote_count.
ReaderView(video_id) ==
  [users |-> {r.user_id : r \in {x \in votes : x.video_id = video_id}},
   vote_count |-> vote_count[video_id]]

\* date_trunc('day', CURRENT_TIMESTAMP AT TIME ZONE 'UTC') AT TIME ZONE 'UTC'
utc_start_of_day_epoch(t) == 0

utc_start_of_day(t) == t - (t % TicksPerDay)

\* SELECT COUNT(*) FROM votes WHERE user_id = v_user_id
\*   AND created_at >= v_utc_start_of_day
\* (elsewhere[u] rows of u are on videos outside VideoIds, created at 0)
DailyVoteCount(rows, v_user_id, t) ==
  Cardinality({r \in rows : r.user_id = v_user_id
                            /\ r.created_at >= utc_start_of_day(t)})
  + (IF 0 >= utc_start_of_day(t) THEN elsewhere[v_user_id] ELSE 0)

\* the columns of a row of videos the feed filters and sorts by, other than
\* vote_count
VideoRow(created_at, hidden, category_id) ==
  [created_at |-> created_at, hidden |-> hidden, category_id |-> category_id]

----------------------------------------------------------------------------
(* JavaScript values of the route handlers *)

\* A value is null, NaN, a number or a string; a string is the sequence of
\* its characters.
JSNull == [kind |-> "null", n |-> 0, s |-> <<>>]

NaN == [kind |-> "NaN", n |-> 0, s |-> <<>>]

Infinity == [kind |-> "Infinity", n |-> 0, s |-> <<>>]

Num(n) == [kind |-> "num", n |-> n, s |-> <<>>]

Str(s) == [kind |-> "str", n |-> 0, s |-> s]

\* ToBoolean: null, NaN, 0 and the empty string are falsy
Truthy(v) ==
  CASE v.kind = "null" -> FALSE
    [] v.kind = "NaN" -> FALSE
    [] v.kind = "num" -> v.n # 0
    [] v.kind = "Infinity" -> TRUE
    [] OTHER -> v.s # <<>>

\* a || b
OrElse(a, b) == IF Truthy(a) THEN a ELSE b

Digits == <<"0", "1", "2", "3", "4", "5", "6", "7", "8", "9">>

IsDigit(c) == \E d \in 1..10 : Digits[d] = c

DigitVal(c) == (CHOOSE d \in 1..10 : Digits[d] = c) - 1

RECURSIVE SkipSpaces(_)
SkipSpaces(s) == IF s # <<>> /\ Head(s) = " " THEN SkipSpaces(Tail(s)) ELSE s

RECURSIVE DigitPrefix(_)
\* the longest prefix of s made of digits
DigitPrefix(s) ==
  IF s # <<>> /\ IsDigit(Head(s)) THEN <<Head(s)>> \o DigitPrefix(Tail(s)) ELSE <<>>

RECURSIVE DigitsValue(_, _)
DigitsValue(s, acc) ==
  IF s = <<>> THEN acc ELSE DigitsValue(Tail(s), 10 * acc + DigitVal(Head(s)))

\* parseInt(string, 10): leading white space is skipped, a sign is read, then
\* the longest run of digits; NaN when there is no digit.
parseInt(s) ==
  LET t == SkipSpaces(s)
      neg == t # <<>> /\ Head(t) = "-"
      u == IF t # <<>> /\ Head(t) \in {"-", "+"} THEN Tail(t) ELSE t
      d == DigitPrefix(u)
  IN IF d = <<>> THEN NaN
     ELSE Num(IF neg THEN 0 - DigitsValue(d, 0) ELSE DigitsValue(d, 0))

\* param ? parseInt(param, 10) : null
parseIntOrNull(param) == IF Truthy(param) THEN parseInt(param.s) ELSE JSNull

RECURSIVE NatToString(_)
NatToString(n) ==
  IF n < 10 THEN <<Digits[n + 1]>>
  ELSE NatToString(n \div 10) \o <<Digits[(n % 10) + 1]>>

\* String(n) of an integer
NumToString(n) == IF n < 0 THEN <<"-">> \o NatToString(0 - n) ELSE NatToString(n)

\* Math.max and Math.min: NaN when an argument is NaN
MathMax(a, b) ==
  IF a.kind = "NaN" \/ b.kind = "NaN" THEN NaN ELSE IF a.n >= b.n THEN a ELSE b

MathMin(a, b) ==
  IF a.kind = "NaN" \/ b.kind = "NaN" THEN NaN ELSE IF a.n <= b.n THEN a ELSE b

----------------------------------------------------------------------------
(* Transactions *)

NoResult == [flag |-> FALSE, error |-> "", raised |-> FALSE]

Idle ==
  [pc |-> "idle", op |-> "none", v_user_id |-> NULL, p_video_id |-> 0, ts |-> 0,
   v_inserted |-> FALSE, found |-> FALSE, ins |-> {}, del |-> {}, wrote |-> FALSE, upd |-> 0,
   sum |-> 0, res |-> NoResult,
   pre_users |-> {}, pre_count |-> 0, pre_mine |-> 0, pre_daily |-> 0,
   pre_total |-> 0, raced |-> FALSE]

\* The row of videos is locked by the transaction that updated it, until
\* that transaction ends: another UPDATE of the row waits.
RowLockFree(p, video_id) ==
  \A q \in Procs \ {p} : ~(tx[q].wrote /\ tx[q].p_video_id = video_id)

KeyBusyNever(p, video_id, user_id) == FALSE

\* An uncommitted INSERT or DELETE of the key (video_id, user_id) by another
\* transaction: INSERT ... ON CONFLICT on that key waits for it (the unique
\* index of UNIQUE(video_id, user_id)).
KeyBusy(p, video_id, user_id) ==
  \E q \in Procs \ {p} : \E r \in tx[q].ins \cup tx[q].del :
     r.video_id = video_id /\ r.user_id = user_id

RowsOfPair(rows, video_id, user_id) ==
  {r \in rows : r.video_id = video_id /\ r.user_id = user_id}

RowsOfVideo(rows, video_id) == {r \in rows : r.video_id = video_id}

\* votes of a user created on the UTC day of time t, every video counted
VotesOnDayOf(rows, user_id, t) ==
  Cardinality({r \in rows : r.user_id = user_id
                 /\ r.created_at \div TicksPerDay = t \div TicksPerDay})
  + (IF user_id \in Voters /\ t \div TicksPerDay = 0 THEN elsewhere[user_id] ELSE 0)

VotesEver(rows, user_id) ==
  Cardinality({r \in rows : r.user_id = user_id})
  + (IF user_id \in Voters THEN elsewhere[user_id] ELSE 0)

\* A request reaches the database: the transaction starts, auth.uid() is the
\* caller, CURRENT_TIMESTAMP and NOW() are the start time of the transaction.
Started(op, user_id, video_id) ==
  [Idle EXCEPT !.pc = "body", !.op = op, !.v_user_id = user_id,
     !.p_video_id = video_id, !.ts = now,
     !.pre_users = {r.user_id : r \in RowsOfVideo(votes, video_id)},
     !.pre_count = IF video_id \in VideoIds THEN vote_count[video_id] ELSE 0,
     !.pre_mine = Cardinality(RowsOfPair(votes, video_id, user_id)),
     !.pre_daily = VotesOnDayOf(votes, user_id, now),
     !.pre_total = VotesEver(votes, user_id),
     !.raced = FALSE]

Start(p, op, user_id, video_id) ==
  /\ tx[p].pc = "idle"
  /\ ncalls < MaxCalls
  /\ tx' = [tx EXCEPT ![p] = Started(op, user_id, video_id)]
  /\ ncalls' = ncalls + 1
  /\ UNCHANGED <<now, votes, vote_count, elsewhere, trigger_installed, last, granted, feedvars, webvars>>

CallCastVote(p, user_id, video_id) == Start(p, "cast_vote", user_id, video_id)

CallUndoVote(p, user_id, video_id) == Start(p, "undo_vote", user_id, video_id)

----------------------------------------------------------------------------
(* cast_vote (database/rpc/cast_vote.sql, weighted version) *)

\* lines 27-60: the authentication check, v_is_admin and the daily vote cap.
\* The COUNT(*) reads the rows committed when it runs.
CastCheckQuota(p) ==
  LET t == tx[p] IN
  /\ t.pc = "body" /\ t.op = "cast_vote"
  /\ IF t.v_user_id = NULL
        THEN tx' = [tx EXCEPT ![p].pc = "commit",
                      ![p].res = [flag |-> FALSE, error |-> "Not authenticated",
                                  raised |-> FALSE]]
      ELSE IF ~is_admin(t.v_user_id)
              /\ DailyVoteCount(Snapshot(p), t.v_user_id, t.ts) >= DailyLimit
        THEN tx' = [tx EXCEPT ![p].pc = "commit",
                      ![p].res = [flag |-> FALSE, error |-> "Daily vote limit reached",
                                  raised |-> FALSE]]
      ELSE tx' = [tx EXCEPT ![p].pc = "insert"]
  /\ UNCHANGED <<now, votes, vote_count, elsewhere, trigger_installed, last, ncalls, granted, feedvars, webvars>>

\* ON CONFLICT (video_id, user_id) DO NOTHING: the rows that conflict with
\* the new row
ConflictsNone(rows, video_id, user_id) == {}

Conflicts(rows, video_id, user_id) == RowsOfPair(rows, video_id, user_id)

CastInsertAutocommit(p) ==
  LET t == tx[p] IN
  /\ t.pc = "insert"
  /\ IF RowsOfPair(votes, t.p_video_id, t.v_user_id) # {}
        THEN /\ tx' = [tx EXCEPT ![p].pc = "resum", ![p].v_inserted = FALSE]
             /\ votes' = votes
      ELSE IF t.p_video_id \notin VideoIds
        THEN /\ tx' = [tx EXCEPT ![p].pc = "abort",
                        ![p].res = [flag |-> FALSE, error |-> "foreign_key_violation",
                                    raised |-> TRUE]]
             /\ votes' = votes
      ELSE /\ tx' = [tx EXCEPT ![p].pc = "resum", ![p].v_inserted = TRUE]
           /\ votes' = votes \cup {VoteRow(t.p_video_id, t.v_user_id, t.ts)}
  /\ UNCHANGED <<now, vote_count, elsewhere, trigger_installed, last, ncalls, granted, feedvars, webvars>>

\* lines 62-68: INSERT INTO votes ... ON CONFLICT DO NOTHING; v_inserted := FOUND.
\* It waits for an uncommitted insert or delete of the same key. A video_id
\* that is no row of videos violates the foreign key of votes.video_id: the
\* statement raises and the transaction is rolled back.
CastInsert(p) ==
  LET t == tx[p] IN
  /\ t.pc = "insert"
  /\ ~KeyBusy(p, t.p_video_id, t.v_user_id)
  /\ IF Conflicts(Snapshot(p), t.p_video_id, t.v_user_id) # {}
        THEN tx' = [tx EXCEPT ![p].pc = "resum", ![p].v_inserted = FALSE,
                      ![p].found = FALSE]
      ELSE IF t.p_video_id \notin VideoIds
        THEN tx' = [tx EXCEPT ![p].pc = "abort",
                      ![p].res = [flag |-> FALSE, error |-> "foreign_key_violation",
                                  raised |-> TRUE]]
      ELSE tx' = [tx EXCEPT
                    ![p].pc = IF trigger_installed THEN "trigger" ELSE "resum",
                    ![p].ins = {VoteRow(t.p_video_id, t.v_user_id, t.ts)},
                    ![p].v_inserted = TRUE, ![p].found = TRUE]
  /\ UNCHANGED <<now, votes, vote_count, elsewhere, trigger_installed, last, ncalls, granted, feedvars, webvars>>

----------------------------------------------------------------------------
(* undo_vote (database/rpc/undo_vote.sql) *)

\* lines 21-32: the authentication check and DELETE FROM votes WHERE
\* video_id = p_video_id AND user_id = v_user_id. A row another transaction
\* is deleting is locked: the DELETE waits for that transaction.
UndoDelete(p) ==
  LET t == tx[p]
      target == RowsOfPair(Snapshot(p), t.p_video_id, t.v_user_id)
  IN
  /\ t.pc = "body" /\ t.op = "undo_vote"
  /\ IF t.v_user_id = NULL
        THEN tx' = [tx EXCEPT ![p].pc = "commit",
                      ![p].res = [flag |-> FALSE, error |-> "Not authenticated",
                                  raised |-> FALSE]]
      ELSE /\ \A q \in Procs \ {p} : tx[q].del \cap target = {}
           /\ tx' = [tx EXCEPT
                       ![p].pc = IF trigger_installed /\ target # {}
                                   THEN "trigger" ELSE "resum",
                       ![p].del = target, ![p].found = (target # {})]
  /\ UNCHANGED <<now, votes, vote_count, elsewhere, trigger_installed, last, ncalls, granted, feedvars, webvars>>

----------------------------------------------------------------------------
(* The statements cast_vote and undo_vote share *)

\* update_video_vote_count(), the AFTER INSERT OR DELETE trigger on votes of
\* schema.sql in its weighted version: an UPDATE of the video's row, which
\* waits while another transaction holds the row.
VoteCountTrigger(p) ==
  LET t == tx[p]
      old == IF t.wrote THEN t.upd ELSE vote_count[t.p_video_id]
      w == vote_weight(t.v_user_id)
  IN
  /\ t.pc = "trigger"
  /\ RowLockFree(p, t.p_video_id)
  /\ tx' = [tx EXCEPT ![p].pc = "resum", ![p].wrote = TRUE,
               ![p].upd = IF t.op = "cast_vote" THEN old + w
                          ELSE IF old - w > 0 THEN old - w ELSE 0]
  /\ UNCHANGED <<now, votes, vote_count, elsewhere, trigger_installed, last, ncalls, granted, feedvars, webvars>>

\* COALESCE((SELECT SUM(public.vote_weight(votes.user_id)) FROM votes
\*           WHERE votes.video_id = v.id), 0)
ResumCountRows(rows, video_id) == Cardinality(RowsOfVideo(rows, video_id))

Resum(rows, video_id) == SumWeights(RowsOfVideo(rows, video_id))

\* The UPDATE videos statement starts: its subquery reads the vote rows of
\* the statement's snapshot. When the UPDATE then waits for the row, the
\* value it writes is still computed from this snapshot.
Resummation(p) ==
  LET t == tx[p] IN
  /\ t.pc = "resum"
  /\ tx' = [tx EXCEPT ![p].pc = "write", ![p].sum = Resum(Snapshot(p), t.p_video_id)]
  /\ UNCHANGED <<now, votes, vote_count, elsewhere, trigger_installed, last, ncalls, granted, feedvars, webvars>>

\* cast_vote lines 83-88: the result is decided by v_inserted, saved from
\* FOUND right after the INSERT.
CastResult(t) == [flag |-> t.v_inserted, error |-> "", raised |-> FALSE]

\* undo_vote lines 47-53: the result is decided by FOUND as it is after the
\* last statement.
UndoResult(t, found) ==
  IF found THEN [flag |-> TRUE, error |-> "", raised |-> FALSE]
  ELSE [flag |-> FALSE, error |-> "Vote not found", raised |-> FALSE]

\* UPDATE videos v SET vote_count = ... WHERE v.id = p_video_id takes the
\* row (waiting while another transaction holds it) and writes the sum. It
\* sets FOUND: true when the row exists. The function then returns.
UpdateVoteCount(p) ==
  LET t == tx[p]
      exists == t.p_video_id \in VideoIds
      result == IF t.op = "cast_vote" THEN CastResult(t) ELSE UndoResult(t, exists)
  IN
  /\ t.pc = "write"
  /\ exists => RowLockFree(p, t.p_video_id)
  /\ tx' = [tx EXCEPT ![p].pc = "commit", ![p].found = exists,
               ![p].wrote = (t.wrote \/ exists),
               ![p].upd = IF exists THEN t.sum ELSE t.upd,
               ![p].res = result]
  /\ UNCHANGED <<now, votes, vote_count, elsewhere, trigger_installed, last, ncalls, granted, feedvars, webvars>>

\* The record kept of the call that ended last: its arguments, its reply, the
\* committed rows of its video when it started, and whether another call
\* ended while it ran.
CallRecord(t) ==
  [op |-> t.op, user_id |-> t.v_user_id, video_id |-> t.p_video_id, res |-> t.res,
   pre_users |-> t.pre_users, pre_count |-> t.pre_count, pre_mine |-> t.pre_mine,
   pre_daily |-> t.pre_daily, pre_total |-> t.pre_total, raced |-> t.raced]

\* the transactions left in flight when p ends have raced with the last call
Ended(p) ==
  [q \in Procs |-> IF q = p THEN Idle
                   ELSE IF InFlight(q) THEN [tx[q] EXCEPT !.raced = TRUE]
                   ELSE tx[q]]

\* what a transaction, once committed, makes of the tables
RowsAfter(t) == (votes \ t.del) \cup t.ins

CountsAfter(t) ==
  IF t.wrote THEN [vote_count EXCEPT ![t.p_video_id] = t.upd] ELSE vote_count

\* The cast_vote calls of each caller that replied voted = true on the
\* current UTC day, once transaction t has ended.
GrantedAfter(t) ==
  IF t.op = "cast_vote" /\ t.res.flag /\ t.v_user_id \in Voters
    THEN [granted EXCEPT ![t.v_user_id] = @ + 1]
    ELSE granted

\* The function has returned: the transaction commits, its inserted and
\* deleted vote rows and its vote_count become visible together.
Commit(p) ==
  LET t == tx[p] IN
  /\ t.pc = "commit"
  /\ votes' = RowsAfter(t)
  /\ vote_count' = CountsAfter(t)
  /\ last' = CallRecord(t)
  /\ tx' = Ended(p)
  /\ granted' = GrantedAfter(t)
  /\ UNCHANGED <<now, elsewhere, trigger_installed, ncalls, feedvars, webvars>>

\* A statement raised: the transaction is rolled back, nothing it did stays.
Abort(p) ==
  LET t == tx[p] IN
  /\ t.pc = "abort"
  /\ last' = CallRecord(t)
  /\ tx' = Ended(p)
  /\ UNCHANGED <<now, votes, vote_count, elsewhere, trigger_installed, ncalls, granted, feedvars, webvars>>

\* Time passes. A transaction reads the clock once, when it starts, so the
\* clock is stepped between transactions.
Tick ==
  /\ now < MaxNow
  /\ \A p \in Procs : ~InFlight(p)
  /\ now' = now + 1
  /\ granted' = IF utc_start_of_day(now + 1) = utc_start_of_day(now)
                  THEN granted ELSE [u \in Voters |-> 0]
  /\ UNCHANGED <<votes, vote_count, elsewhere, trigger_installed, tx, last, ncalls,
                 feedvars, webvars>>

----------------------------------------------------------------------------
(* GET /api/videos (app/api/videos/route.ts) *)

\* a timestamptz column as PostgREST prints it in JSON
TimestampToString(t) == NumToString(t)

\* a literal the database can read as a timestamp / as an integer
IsTimestampLiteral(s) == s # <<>> /\ \A k \in 1..Len(s) : IsDigit(s[k])

TimestampOfLiteral(s) == DigitsValue(s, 0)

\* the query string parameters of a request: each one a string, or null
\* when it is absent
Params(sort, limit, category_id, cursor_vote_count, cursor_created_at, cursor_id) ==
  [sort |-> sort, limit |-> limit, category_id |-> category_id,
   cursor_vote_count |-> cursor_vote_count,
   cursor_created_at |-> cursor_created_at, cursor_id |-> cursor_id]

NoParams == Params(JSNull, JSNull, JSNull, JSNull, JSNull, JSNull)

\* line 20: searchParams.get('sort') || 'votes'
SortBy(params) == OrElse(params.sort, Str(<<"votes">>))

\* line 24: Math.min(Math.max(parseInt(limitParam || '12', 10), 1), 50)
Limit(params) ==
  MathMin(MathMax(parseInt(OrElse(params.limit, Str(<<"1", "2">>)).s), Num(1)), Num(50))

\* lines 27-37: the cursor and the category filter. The quoted cursor
\* timestamp is kept as the string between the quotes.
CursorCreatedAt(params) ==
  IF Truthy(params.cursor_created_at) THEN params.cursor_created_at ELSE JSNull

CursorId(params) == parseIntOrNull(params.cursor_id)

CursorVoteCount(params) == parseIntOrNull(params.cursor_vote_count)

CategoryId(params) == parseIntOrNull(params.category_id)

\* a row of videos as the query reads it
Item(i) ==
  [id |-> i, vote_count |-> vote_count[i], created_at |-> videos[i].created_at,
   hidden |-> videos[i].hidden, category_id |-> videos[i].category_id]

\* lines 50-52: the category filter is applied when category_id parses
HasCategoryFilter(params) ==
  CategoryId(params).kind # "null" /\ CategoryId(params).kind # "NaN"

\* lines 64 and 81: the cursor filter is applied when its fields are there
HasCursorFilter(params) ==
  IF SortBy(params) = Str(<<"votes">>)
    THEN /\ CursorVoteCount(params).kind # "null"
         /\ Truthy(CursorCreatedAt(params))
         /\ CursorId(params).kind # "null"
    ELSE /\ Truthy(CursorCreatedAt(params))
         /\ CursorId(params).kind # "null"

\* The database cannot read a value of the filter (NaN as an integer, or a
\* string that is no timestamp): the query fails.
FilterUnreadable(params) ==
  /\ HasCursorFilter(params)
  /\ \/ CursorId(params).kind = "NaN"
     \/ ~IsTimestampLiteral(CursorCreatedAt(params).s)
     \/ SortBy(params) = Str(<<"votes">>) /\ CursorVoteCount(params).kind = "NaN"

voteFilterPartsNoTie(row, cursorVoteCount, cursorCreatedAt, cursorId) ==
  row.vote_count < cursorVoteCount

\* lines 65-69: or(and(vote_count.lt.c), and(vote_count.eq.c,created_at.lt.c),
\*                 and(vote_count.eq.c,created_at.eq.c,id.lt.c))
voteFilterParts(row, cursorVoteCount, cursorCreatedAt, cursorId) ==
  \/ row.vote_count < cursorVoteCount
  \/ row.vote_count = cursorVoteCount /\ row.created_at < cursorCreatedAt
  \/ /\ row.vote_count = cursorVoteCount /\ row.created_at = cursorCreatedAt
     /\ row.id < cursorId

newestFilterPartsNoTie(row, cursorCreatedAt, cursorId) ==
  row.created_at < cursorCreatedAt

\* lines 82-85: or(created_at.lt.c, and(created_at.eq.c,id.lt.c))
newestFilterParts(row, cursorCreatedAt, cursorId) ==
  \/ row.created_at < cursorCreatedAt
  \/ row.created_at = cursorCreatedAt /\ row.id < cursorId

SelectedAll(row, params) == TRUE

SelectedHiddenToo(row, params) ==
  /\ HasCategoryFilter(params) => row.category_id = CategoryId(params).n
  /\ HasCursorFilter(params) =>
       IF SortBy(params) = Str(<<"votes">>)
         THEN voteFilterParts(row, CursorVoteCount(params).n,
                              TimestampOfLiteral(CursorCreatedAt(params).s),
                              CursorId(params).n)
         ELSE newestFilterParts(row, TimestampOfLiteral(CursorCreatedAt(params).s),
                                CursorId(params).n)

\* the WHERE clause of the query
Selected(row, params) ==
  /\ row.hidden = FALSE
  /\ HasCategoryFilter(params) => row.category_id = CategoryId(params).n
  /\ HasCursorFilter(params) =>
       IF SortBy(params) = Str(<<"votes">>)
         THEN voteFilterParts(row, CursorVoteCount(params).n,
                              TimestampOfLiteral(CursorCreatedAt(params).s),
                              CursorId(params).n)
         ELSE newestFilterParts(row, TimestampOfLiteral(CursorCreatedAt(params).s),
                                CursorId(params).n)

\* the ORDER BY columns, every one descending
OrderByWithoutId(sortBy) ==
  IF sortBy = Str(<<"votes">>) THEN <<"vote_count", "created_at">>
  ELSE <<"created_at">>

\* lines 57-60 and 75-77
OrderBy(sortBy) ==
  IF sortBy = Str(<<"votes">>) THEN <<"vote_count", "created_at", "id">>
  ELSE <<"created_at", "id">>

RECURSIVE SortsAfter(_, _, _)
SortsAfter(a, b, cols) ==
  IF cols = <<>> THEN FALSE
  ELSE \/ a[Head(cols)] < b[Head(cols)]
       \/ a[Head(cols)] = b[Head(cols)] /\ SortsAfter(a, b, Tail(cols))

RECURSIVE SortsBefore(_, _, _)
\* row a comes strictly before row b under ORDER BY cols (descending)
SortsBefore(a, b, cols) ==
  IF cols = <<>> THEN FALSE
  ELSE \/ a[Head(cols)] > b[Head(cols)]
       \/ a[Head(cols)] = b[Head(cols)] /\ SortsBefore(a, b, Tail(cols))

\* The orders in which the database may return a set of rows: every
\* arrangement that respects the ORDER BY columns.
Ordered(rows, cols) ==
  {q \in [1..Cardinality(rows) -> rows] :
     /\ \A j, k \in 1..Cardinality(rows) : j # k => q[j] # q[k]
     /\ \A j, k \in 1..Cardinality(rows) : j < k => ~SortsBefore(q[k], q[j], cols)}

\* lines 128-144: nextCursor, null or the sort key of the last video
NoCursor == [null |-> TRUE, vote_count |-> JSNull, created_at |-> JSNull, id |-> JSNull]

CursorOf(lastVideo, sortBy) ==
  [null |-> FALSE,
   vote_count |-> IF sortBy = Str(<<"votes">>) THEN Num(lastVideo.vote_count) ELSE JSNull,
   created_at |-> Str(lastVideo.created_at),
   id |-> Num(lastVideo.id)]

nextCursorOfAnyPage(page, limit, sortBy) ==
  IF Len(page) > 0 THEN CursorOf(page[Len(page)], sortBy) ELSE NoCursor

nextCursor(page, limit, sortBy) ==
  IF Len(page) > 0 /\ limit.kind = "num" /\ Len(page) = limit.n
    THEN CursorOf(page[Len(page)], sortBy)
    ELSE NoCursor

\* a row as it is in the JSON of the response: created_at is a string
JsonOf(row) == [row EXCEPT !.created_at = TimestampToString(row.created_at)]

\* lines 96-116: the query failed
ErrorResponse == [status |-> 500, videos |-> <<>>, nextCursor |-> NoCursor]

RespondWithoutCursor(rows, limit, sortBy) ==
  [status |-> 200, videos |-> [k \in 1..Len(rows) |-> JsonOf(rows[k])],
   nextCursor |-> NoCursor]

\* lines 118-146: { videos, nextCursor }
Respond(rows, limit, sortBy) ==
  LET page == [k \in 1..Len(rows) |-> JsonOf(rows[k])]
  IN [status |-> 200, videos |-> page, nextCursor |-> nextCursor(page, limit, sortBy)]

TakeAll(q, n) == q

\* query.limit(limit) keeps the first rows
Take(q, n) == [k \in 1..(IF n < Len(q) THEN n ELSE Len(q)) |-> q[k]]

\* The responses GET can give to a request. A limit that is NaN reaches
\* PostgREST as the text "NaN": the query is refused, or runs without limit.
GETResponses(params) ==
  LET rows == {Item(i) : i \in {j \in VideoIds : Selected(Item(j), params)}}
      limit == Limit(params)
      sortBy == SortBy(params)
  IN IF FilterUnreadable(params) THEN {ErrorResponse}
     ELSE IF limit.kind = "NaN"
       THEN {ErrorResponse} \cup
            {Respond(q, limit, sortBy) : q \in Ordered(rows, OrderBy(sortBy))}
     ELSE {Respond(Take(q, limit.n), limit, sortBy) :
              q \in Ordered(rows, OrderBy(sortBy))}

\* The feed as its client has it: how the last request was made, the last
\* request and its response, the response before it, the ids of the videos
\* received since the first page, the number of pages fetched, and the videos
\* that were hidden when the last request was served.
NoFeed ==
  [mode |-> "none", req |-> NoParams, resp |-> ErrorResponse, prev |-> ErrorResponse,
   seen |-> <<>>, pages |-> 0, hidden |-> {}]

Ids(page) == [k \in 1..Len(page) |-> page[k].id]

ledgervars ==
  <<now, votes, vote_count, elsewhere, trigger_installed, tx, last, ncalls, granted>>

\* GET /api/videos with the given query string
GET(params, mode) ==
  \E resp \in GETResponses(params) :
     feed' = [mode |-> mode, req |-> params, resp |-> resp, prev |-> feed.resp,
              seen |-> IF mode = "next" THEN feed.seen \o Ids(resp.videos)
                       ELSE Ids(resp.videos),
              pages |-> IF mode = "next" THEN feed.pages + 1 ELSE 1,
              hidden |-> {i \in VideoIds : videos[i].hidden}]

\* the first page of a listing: no cursor parameter
FirstPage(sort, category_id, limit) ==
  /\ feed.mode = "none"
  /\ GET(Params(sort, limit, category_id, JSNull, JSNull, JSNull), "first")
  /\ UNCHANGED <<ledgervars, videos, webvars>>

\* VideoFeed.loadMore: the same listing, with the fields of nextCursor as
\* cursor parameters
loadMore ==
  LET cursor == feed.resp.nextCursor IN
  /\ feed.mode \in {"first", "next"}
  /\ ~cursor.null
  /\ GET(Params(feed.req.sort, feed.req.limit, feed.req.category_id,
                IF feed.req.sort = Str(<<"votes">>) /\ cursor.vote_count.kind = "num"
                  THEN Str(NumToString(cursor.vote_count.n)) ELSE JSNull,
                cursor.created_at,
                Str(NumToString(cursor.id.n))), "next")
  /\ UNCHANGED <<ledgervars, videos, webvars>>

\* the last request is made once more, independently
GetAgain ==
  /\ feed.mode \in {"first", "next", "any"}
  /\ GET(feed.req, "again")
  /\ UNCHANGED <<ledgervars, videos, webvars>>

\* a request with cursor parameters of the caller's making
GetWithCursor(params) ==
  /\ feed.mode = "none"
  /\ GET(params, "any")
  /\ UNCHANGED <<ledgervars, videos, webvars>>

\* admin_delete_video.sql: the designated admin hides a video; for any other
\* caller the function raises 'not authorized' and writes nothing
v_admin == "77676986-1993-4ba2-b2b1-be5cb1315671"

admin_delete_video(uid, p_video_id) ==
  /\ IF uid = NULL \/ uid # v_admin
       THEN UNCHANGED videos
       ELSE videos' = [videos EXCEPT ![p_video_id].hidden = TRUE]
  /\ UNCHANGED <<ledgervars, feed, webvars>>

----------------------------------------------------------------------------
(* VideoFeed (components/VideoFeed.tsx) *)

\* the sort and the category of the page's URL
NoSelection == <<JSNull, JSNull>>

\* the component before it mounts: its state (lines 30-40), the requests in
\* flight, their number so far, and the selections under which the requests
\* were made whose responses gave the videos and the nextCursor
NoVf ==
  [pc |-> "none", sort |-> JSNull, category_id |-> JSNull, videos |-> <<>>,
   nextCursor |-> NoCursor, isLoading |-> TRUE, isLoadingMore |-> FALSE,
   error |-> FALSE, inflight |-> {}, issued |-> 0, videosSel |-> {},
   cursorSel |-> NoSelection]

\* fetch(`/api/videos?${params}`): a request in flight
Request(seq, kind, sort, category_id, cursor) ==
  [seq |-> seq, kind |-> kind, sel |-> <<sort, category_id>>,
   params |->
     Params(sort, Str(NumToString(VfLimit)), category_id,
            IF ~cursor.null /\ sort = Str(<<"votes">>) /\ cursor.vote_count.kind = "num"
              THEN Str(NumToString(cursor.vote_count.n)) ELSE JSNull,
            IF cursor.null THEN JSNull ELSE cursor.created_at,
            IF cursor.null THEN JSNull ELSE Str(NumToString(cursor.id.n)))]

vfframe == <<ledgervars, feedvars, clock, rateLimitStore, recent, http, ui>>

\* lines 72-85: the effect that runs when currentSort or currentCategoryId
\* has changed, up to its fetch
fetchVideos(sort, category_id) ==
  [vf EXCEPT !.pc = "mounted", !.sort = sort, !.category_id = category_id,
     !.isLoading = TRUE, !.nextCursor = NoCursor, !.issued = @ + 1,
     !.inflight = @ \cup {Request(vf.issued + 1, "initial", sort, category_id, NoCursor)}]

\* the page opens with the default sort and every category
VideoFeedMount ==
  /\ vf.pc = "none"
  /\ vf' = fetchVideos(Str(<<"votes">>), JSNull)
  /\ UNCHANGED vfframe

\* lines 160-167: router.push with another sort
handleSortChange(sort) ==
  /\ vf.pc = "mounted" /\ vf.issued < MaxVfRequests
  /\ sort # vf.sort
  /\ vf' = fetchVideos(sort, vf.category_id)
  /\ UNCHANGED vfframe

\* lines 169-179: router.push with another category, or with none for 'all'
handleCategoryChange(categoryId) ==
  LET category_id == IF Truthy(categoryId) /\ categoryId # Str(<<"all">>)
                       THEN categoryId ELSE JSNull
  IN
  /\ vf.pc = "mounted" /\ vf.issued < MaxVfRequests
  /\ category_id # vf.category_id
  /\ vf' = fetchVideos(vf.sort, category_id)
  /\ UNCHANGED vfframe

\* lines 86-105: the response of the effect's fetch has come
fetchVideosDone(r) ==
  /\ r \in vf.inflight /\ r.kind = "initial"
  /\ \E resp \in GETResponses(r.params) :
       vf' = IF resp.status = 200
               THEN [vf EXCEPT !.videos = Ids(resp.videos),
                       !.nextCursor = resp.nextCursor, !.error = FALSE,
                       !.isLoading = FALSE, !.inflight = @ \ {r},
                       !.videosSel = {r.sel}, !.cursorSel = r.sel]
               ELSE [vf EXCEPT !.error = TRUE, !.isLoading = FALSE,
                       !.inflight = @ \ {r}]
  /\ UNCHANGED vfframe

\* lines 107-128: the Load more button, up to the fetch
loadMoreClick ==
  /\ vf.pc = "mounted" /\ vf.issued < MaxVfRequests
  /\ ~vf.nextCursor.null /\ ~vf.isLoadingMore
  /\ vf' = [vf EXCEPT !.isLoadingMore = TRUE, !.issued = @ + 1,
              !.inflight = @ \cup {Request(vf.issued + 1, "more", vf.sort,
                                           vf.category_id, vf.nextCursor)}]
  /\ UNCHANGED vfframe

RECURSIVE Merged(_, _)
\* lines 138-148: the new videos whose id is not in the list yet are appended
Merged(prev, newVideos) ==
  IF newVideos = <<>> THEN prev
  ELSE IF \E k \in 1..Len(prev) : prev[k] = Head(newVideos)
    THEN Merged(prev, Tail(newVideos))
  ELSE Merged(Append(prev, Head(newVideos)), Tail(newVideos))

\* lines 129-158: the response of loadMore's fetch has come
loadMoreDone(r) ==
  /\ r \in vf.inflight /\ r.kind = "more"
  /\ \E resp \in GETResponses(r.params) :
       vf' = IF resp.status = 200
               THEN [vf EXCEPT !.videos = Merged(@, Ids(resp.videos)),
                       !.nextCursor = resp.nextCursor,
                       !.isLoadingMore = FALSE, !.inflight = @ \ {r},
                       !.videosSel = @ \cup {r.sel}, !.cursorSel = r.sel]
               ELSE [vf EXCEPT !.error = TRUE, !.isLoadingMore = FALSE,
                       !.inflight = @ \ {r}]
  /\ UNCHANGED vfframe

----------------------------------------------------------------------------
(* POST and DELETE /api/votes (app/api/votes/route.ts) *)

\* no page is open
NoUi ==
  [pc |-> "none", videoId |-> 0, voteCount |-> 0, hasVoted |-> FALSE,
   isVoting |-> FALSE, error |-> "", checked |-> FALSE, previousCount |-> 0,
   previousHasVoted |-> FALSE, request |-> "none",
   response |-> [status |-> 0, data |-> NoResult], outcome |-> "none", calls |-> 0]

\* checkRateLimit(rateLimitKey, 30, 60 * 1000): the limit, and the window in
\* ticks of the server's clock (one tick is half a minute)
RateLimit == 30

WindowTicks == 2

\* rateLimitStore.get(key) of a key that was never set
NoEntry == [set |-> FALSE, count |-> 0, resetAt |-> 0]

checkRateLimitAlwaysOk(key, limit, windowMs) ==
  LET entry == rateLimitStore[key] IN
  IF ~entry.set \/ clock >= entry.resetAt
    THEN [ok |-> TRUE,
          store |-> [rateLimitStore EXCEPT
                       ![key] = [set |-> TRUE, count |-> 1, resetAt |-> clock + windowMs]]]
    ELSE [ok |-> TRUE,
          store |-> [rateLimitStore EXCEPT ![key].count = @ + 1]]

\* lines 151-171: a counter per key over a window that starts with the first
\* request after the end of the window before. The result and the map as the
\* call leaves it.
checkRateLimit(key, limit, windowMs) ==
  LET entry == rateLimitStore[key] IN
  IF ~entry.set \/ clock >= entry.resetAt
    THEN [ok |-> TRUE,
          store |-> [rateLimitStore EXCEPT
                       ![key] = [set |-> TRUE, count |-> 1, resetAt |-> clock + windowMs]]]
    ELSE [ok |-> ~(entry.count + 1 > limit),
          store |-> [rateLimitStore EXCEPT ![key].count = @ + 1]]

\* the body of a request: a JSON object with the value of its video_id
\* property (null when it has none), the JSON value null, or no JSON at all
Body(video_id) == [kind |-> "object", video_id |-> video_id]

NullBody == [kind |-> "null", video_id |-> JSNull]

MalformedBody == [kind |-> "malformed", video_id |-> JSNull]

\* request.json() followed by const { video_id } = body throws
BodyThrows(body) == body.kind # "object"

InvalidVideoIdNever(video_id) == FALSE

\* lines 243 and 362: !video_id || typeof video_id !== 'number' ||
\* !Number.isFinite(video_id) || video_id <= 0
InvalidVideoId(video_id) ==
  \/ ~Truthy(video_id)
  \/ video_id.kind \notin {"num", "NaN", "Infinity"}
  \/ video_id.kind # "num"
  \/ video_id.n <= 0

NoHttp ==
  [pc |-> "idle", method |-> "none", user |-> NULL, body |-> NullBody, status |-> 0,
   error |-> "", data |-> NoResult, rpc |-> FALSE, count |-> 0]

Reply(method, user, body, status, error, count) ==
  [pc |-> "done", method |-> method, user |-> user, body |-> body, status |-> status,
   error |-> error, data |-> NoResult, rpc |-> FALSE, count |-> count]

Invoke(method, user, body, count) ==
  [pc |-> "rpc", method |-> method, user |-> user, body |-> body, status |-> 0,
   error |-> "", data |-> NoResult, rpc |-> TRUE, count |-> count]

\* POST, lines 173-258: the authentication check, the rate limit, the body
\* and its validation, up to the call of cast_vote. count is the limiter's
\* count of the request.
PostReceived(user, body) ==
  LET rl == checkRateLimit(user, RateLimit, WindowTicks)
      count == rl.store[user].count
  IN
  IF user = NULL THEN Reply("POST", user, body, 401, "Unauthorized", 0)
  ELSE IF ~rl.ok THEN Reply("POST", user, body, 429, "Too many requests", count)
  ELSE IF BodyThrows(body) THEN Reply("POST", user, body, 500, "Failed to cast vote", count)
  ELSE IF InvalidVideoId(body.video_id)
    THEN Reply("POST", user, body, 400, "Invalid video_id", count)
  ELSE Invoke("POST", user, body, count)

\* DELETE, lines 317-377: the same without the rate limit
DeleteReceived(user, body) ==
  IF user = NULL THEN Reply("DELETE", user, body, 401, "Unauthorized", 0)
  ELSE IF BodyThrows(body) THEN Reply("DELETE", user, body, 500, "Failed to delete vote", 0)
  ELSE IF InvalidVideoId(body.video_id)
    THEN Reply("DELETE", user, body, 400, "Invalid video_id", 0)
  ELSE Invoke("DELETE", user, body, 0)

\* The route has the request: it answers at once or calls the function, whose
\* transaction starts.
Receive(received, op) ==
  /\ tx[1].pc = "idle"
  /\ http' = received
  /\ tx' = IF received.rpc
             THEN [tx EXCEPT ![1] = Started(op, received.user, received.body.video_id.n)]
             ELSE tx
  /\ recent' = IF received.rpc /\ op = "cast_vote"
                 THEN [recent EXCEPT ![WindowTicks] = @ + 1]
                 ELSE recent
  /\ UNCHANGED <<now, votes, vote_count, elsewhere, trigger_installed, last, ncalls,
                 granted, feedvars, clock, ui, vf>>

POST(user, body) ==
  /\ user # NULL =>
       rateLimitStore[user].count < RateLimit + MaxOver \/ clock >= rateLimitStore[user].resetAt
  /\ rateLimitStore' = IF user = NULL THEN rateLimitStore
                       ELSE checkRateLimit(user, RateLimit, WindowTicks).store
  /\ Receive(PostReceived(user, body), "cast_vote")

DELETE(user, body) ==
  /\ UNCHANGED rateLimitStore
  /\ Receive(DeleteReceived(user, body), "undo_vote")

\* POST, lines 255-302: the reply made of what cast_vote returned
PostReplied(res) ==
  IF res.raised
    THEN [http EXCEPT !.pc = "done", !.status = 500, !.error = "Failed to cast vote"]
  ELSE IF res.error = "Daily vote limit reached"
    THEN [http EXCEPT !.pc = "done", !.status = 429, !.error = "Daily vote limit reached"]
  ELSE [http EXCEPT !.pc = "done", !.status = 200, !.data = res]

\* DELETE, lines 380-433: the reply made of what undo_vote returned
DeleteReplied(res) ==
  IF res.raised
    THEN [http EXCEPT !.pc = "done", !.status = 500, !.error = "Failed to delete vote"]
  ELSE IF res.error = "Not authenticated"
    THEN [http EXCEPT !.pc = "done", !.status = 401, !.error = "Unauthorized"]
  ELSE IF res.error = "Vote not found"
    THEN [http EXCEPT !.pc = "done", !.status = 404, !.error = "Vote not found"]
  ELSE [http EXCEPT !.pc = "done", !.status = 200,
                    !.data = [flag |-> TRUE, error |-> "", raised |-> FALSE]]

\* The function has returned or raised and its transaction has ended: the
\* route answers.
RouteReply ==
  /\ http.pc = "rpc" /\ tx[1].pc = "idle"
  /\ http' = IF http.method = "POST" THEN PostReplied(last.res) ELSE DeleteReplied(last.res)
  /\ UNCHANGED <<ledgervars, feedvars, clock, rateLimitStore, recent, ui, vf>>

\* The server's clock advances by one tick.
ClockTick ==
  /\ clock < MaxClock
  /\ clock' = clock + 1
  /\ recent' = Tail(recent) \o <<0>>
  /\ UNCHANGED <<ledgervars, feedvars, rateLimitStore, http, ui, vf>>

\* the web tier when the server has started and no page is open
InitWeb ==
  /\ clock = 0
  /\ rateLimitStore = [u \in Voters |-> NoEntry]
  /\ recent = [k \in 1..WindowTicks |-> 0]
  /\ http = NoHttp
  /\ ui = NoUi
  /\ vf = NoVf

----------------------------------------------------------------------------
(* useVote (hooks/useVote.ts) *)

\* no response of /api/votes
NoResponse == [status |-> 0, data |-> NoResult]

\* lines 22-25: the state of the hook when its component mounts, with the
\* closure variables of handleVote, the request it sent, the response it got
\* and how its last call ended
Mounted(videoId, initialVoteCount, calls) ==
  [pc |-> "idle", videoId |-> videoId, voteCount |-> initialVoteCount,
   hasVoted |-> FALSE, isVoting |-> FALSE, error |-> "", checked |-> FALSE,
   previousCount |-> 0, previousHasVoted |-> FALSE, request |-> "none",
   response |-> NoResponse, outcome |-> "none", calls |-> calls]

\* the user of the browser's session, and what getUser() gives: the user, or
\* nobody when the session has ended
SessionUser == "user-1"

GetUser == {SessionUser, NULL}

\* everything but the hook and the request
hookframe == <<ledgervars, feedvars, clock, rateLimitStore, recent, vf>>

\* A page with the vote button of a video opens: initialVoteCount is the
\* vote_count of the video as listed (0 for an id that is no video).
Mount(videoId) ==
  /\ ui.pc \in {"none", "idle"} /\ http.pc = "idle"
  /\ ui' = Mounted(videoId, IF videoId \in VideoIds THEN vote_count[videoId] ELSE 0,
                   ui.calls)
  /\ UNCHANGED <<hookframe, http>>

\* lines 36-74: the effect that reads the user's vote row of the video; it
\* leaves hasVoted alone when the query fails
checkVote(user, voteError) ==
  /\ ui.pc # "none" /\ ~ui.checked
  /\ ui' = [ui EXCEPT
              !.checked = TRUE,
              !.hasVoted =
                 IF ~(ui.videoId > 0) \/ user = NULL THEN FALSE
                 ELSE IF voteError THEN @
                 ELSE RowsOfPair(votes, ui.videoId, user) # {}]
  /\ UNCHANGED <<hookframe, http>>

\* lines 76-100: handleVote is called; voteCount and hasVoted are those of
\* the render it was made in
handleVote ==
  /\ ui.pc = "idle" /\ ui.calls < MaxHookCalls
  /\ ui' = IF ~(ui.videoId > 0)
             THEN [ui EXCEPT !.error = "Invalid video ID", !.calls = @ + 1]
             ELSE [ui EXCEPT !.pc = "auth", !.calls = @ + 1, !.outcome = "none",
                             !.previousCount = ui.voteCount,
                             !.previousHasVoted = ui.hasVoted,
                             !.request = "none", !.response = NoResponse]
  /\ UNCHANGED <<hookframe, http>>

\* lines 85-151: getUser() has answered; nobody: the browser leaves for the
\* login page; else the optimistic update and the request
handleVoteFetch(user) ==
  /\ ui.pc = "auth" /\ http.pc = "idle"
  /\ IF user = NULL
       THEN ui' = [ui EXCEPT !.pc = "idle"] /\ UNCHANGED http
       ELSE /\ ui' = IF ui.previousHasVoted
                       THEN [ui EXCEPT !.pc = "fetch", !.isVoting = TRUE, !.error = "",
                               !.voteCount = IF ui.previousCount - 1 < 0 THEN 0
                                             ELSE ui.previousCount - 1,
                               !.hasVoted = FALSE, !.request = "DELETE"]
                       ELSE [ui EXCEPT !.pc = "fetch", !.isVoting = TRUE, !.error = "",
                               !.voteCount = ui.previousCount + 1,
                               !.hasVoted = TRUE, !.request = "POST"]
            /\ http' = [NoHttp EXCEPT !.pc = "sent",
                          !.method = IF ui.previousHasVoted THEN "DELETE" ELSE "POST",
                          !.body = Body(Num(ui.videoId))]
  /\ UNCHANGED hookframe

RolledBackNot(u) == u

\* lines 125-126, 158-159, 174-175: the rollback of the optimistic update
RolledBack(u) ==
  [u EXCEPT !.voteCount = u.previousCount, !.hasVoted = u.previousHasVoted]

\* lines 120-131 and 153-181: the response has come; a response that is not
\* OK is rolled back and thrown into the catch block
handleVoteResponse ==
  /\ ui.pc = "fetch" /\ http.pc = "done"
  /\ ui' = IF http.status = 200
             THEN [ui EXCEPT !.pc = "idle", !.isVoting = FALSE, !.outcome = "ok",
                     !.response = [status |-> http.status, data |-> http.data]]
             ELSE [RolledBack(ui) EXCEPT !.pc = "idle", !.isVoting = FALSE,
                     !.outcome = "failed", !.error = http.error,
                     !.response = [status |-> http.status, data |-> http.data]]
  /\ http' = NoHttp
  /\ UNCHANGED hookframe

\* lines 172-181: fetch throws (the request is lost before it reaches the
\* server, or its response is)
handleVoteThrows ==
  /\ ui.pc = "fetch" /\ http.pc \in {"sent", "done"}
  /\ ui' = [RolledBack(ui) EXCEPT !.pc = "idle", !.isVoting = FALSE,
              !.outcome = "failed", !.error = "Failed to fetch"]
  /\ http' = NoHttp
  /\ UNCHANGED hookframe

----------------------------------------------------------------------------
(* Specifications *)

\* No vote on the videos of the model; every caller has the same number of
\* votes of time 0 on other videos; the trigger of schema.sql is or is not
\* installed in the database.
Init ==
  /\ now = 0
  /\ votes = {}
  /\ vote_count = [i \in VideoIds |-> 0]
  /\ \E n \in {0, DailyLimit - 1, DailyLimit} : elsewhere = [u \in Voters |-> n]
  /\ trigger_installed \in BOOLEAN
  /\ tx = [p \in Procs |-> Idle]
  /\ last = CallRecord(Idle)
  /\ ncalls = 0
  /\ granted = elsewhere
  /\ videos = [i \in VideoIds |-> VideoRow(0, FALSE, 1)]
  /\ feed = NoFeed
  /\ InitWeb

Statement(p) ==
  \/ CastCheckQuota(p)
  \/ CastInsert(p)
  \/ UndoDelete(p)
  \/ VoteCountTrigger(p)
  \/ Resummation(p)
  \/ UpdateVoteCount(p)
  \/ Commit(p)

\* Serial calls: each call runs to completion before the next one starts.
Next ==
  \/ Tick
  \/ \E r \in Requests : CallCastVote(1, r[1], r[2])
  \/ \E r \in Requests : CallUndoVote(1, r[1], r[2])
  \/ Statement(1)
  \/ Abort(1)

Spec == Init /\ [][Next]_vars

\* Concurrent calls: the statements of two transactions interleave. The
\* two connections are interchangeable: the second one is used for the calls
\* that start while the first one is busy.
Free(p) == ncalls < MaxConcCalls /\ (p = 1 \/ InFlight(1))

\* the concurrent requests: authenticated, for a video that exists
ConcRequests == {r \in Requests : r[1] \in Voters /\ r[2] \in VideoIds}

NextConc ==
  \/ Tick
  \/ \E p \in ConcProcs, r \in ConcRequests : Free(p) /\ CallCastVote(p, r[1], r[2])
  \/ \E p \in ConcProcs, r \in ConcRequests : Free(p) /\ CallUndoVote(p, r[1], r[2])
  \/ \E p \in ConcProcs : Statement(p)

SpecConc == Init /\ [][NextConc]_vars

\* One ordinary user votes on different videos from every connection at
\* once: a connection is used when the ones before it are busy.
FreeRace(p) == \A q \in Procs : q < p => InFlight(q)

NextRace ==
  \/ \E p \in Procs, i \in VideoIds : FreeRace(p) /\ CallCastVote(p, "user-1", i)
  \/ \E p \in Procs : CastCheckQuota(p)
  \/ \E p \in Procs : CastInsert(p)
  \/ \E p \in Procs : VoteCountTrigger(p)
  \/ \E p \in Procs : Resummation(p)
  \/ \E p \in Procs : UpdateVoteCount(p)
  \/ \E p \in Procs : Commit(p)

SpecRace == Init /\ [][NextRace]_vars

\* The listings of a static dataset. Each video has the votes, made at
\* time 1, of the first 3 or of all 5 ordinary users (so that scores tie),
\* was created at time 0 or 1, and is a visible video of category 1 or 2 or a
\* hidden one of category 1.
FeedVoters == <<"user-1", "user-2", "user-3", "user-4", "user-5">>

VoteRowsOf(n) ==
  {r \in {VoteRow(i, FeedVoters[k], 1) : i \in VideoIds, k \in 1..Len(FeedVoters)} :
     \E k \in 1..n[r.video_id] : FeedVoters[k] = r.user_id}

VideoRows ==
  {VideoRow(c, h, g) : c \in {0, 1}, h \in BOOLEAN, g \in {1, 2}} \
  {VideoRow(c, TRUE, 2) : c \in {0, 1}}

InitFeed ==
  /\ now = MaxNow
  /\ \E n \in [VideoIds -> {3, 5}] : votes = VoteRowsOf(n)
  /\ vote_count = [i \in VideoIds |-> Resum(votes, i)]
  /\ elsewhere = [u \in Voters |-> 0]
  /\ trigger_installed = FALSE
  /\ tx = [p \in Procs |-> Idle]
  /\ last = CallRecord(Idle)
  /\ ncalls = 0
  /\ granted = [u \in Voters |-> 0]
  /\ videos \in [VideoIds -> VideoRows]
  /\ feed = NoFeed
  /\ InitWeb

\* the values of the sort, category_id and limit parameters of the listings
Sorts == {Str(<<"votes">>), Str(<<"newest">>)}

Categories == {JSNull, Str(<<"1">>), Str(<<"2">>)}

Limits == {JSNull, Str(<<"1">>), Str(<<"2">>), Str(<<"3">>)}

\* limit parameters outside the range: empty, not a number, zero, negative,
\* above 50, a number followed by letters
OddLimits ==
  {Str(<<>>), Str(<<"a", "b", "c">>), Str(<<"0">>), Str(<<"-", "5">>), Str(<<"5", "1">>),
   Str(<<"2", "a">>)}

\* cursor parameters of the caller's making: absent, well-formed, not a number
CursorParams ==
  {Params(sort, Str(<<"2">>), JSNull, cvc, cca, cid) :
     sort \in Sorts,
     cvc \in {JSNull, Str(<<"5">>), Str(<<"a", "b", "c">>)},
     cca \in {JSNull, Str(<<"1">>), Str(<<"a", "b", "c">>)},
     cid \in {JSNull, Str(<<"2">>), Str(<<"a", "b", "c">>)}}
  \cup {Params(Str(<<"votes">>), limit, JSNull, JSNull, JSNull, JSNull) : limit \in OddLimits}

NextFeed ==
  \/ \E sort \in Sorts, category_id \in Categories, limit \in Limits :
        FirstPage(sort, category_id, limit)
  \/ loadMore
  \/ GetAgain
  \/ \E params \in CursorParams : GetWithCursor(params)

SpecFeed == InitFeed /\ [][NextFeed]_vars

\* A listing read page by page while votes are cast and undone: every video
\* is visible and of category 1; between two pages a weighted account votes
\* on a video, or an ordinary user takes a vote back.
InitTraverse ==
  /\ InitFeed
  /\ \A i \in VideoIds : ~videos[i].hidden /\ videos[i].category_id = 1

NextTraverse ==
  \/ \E sort \in Sorts, limit \in {Str(<<"1">>), Str(<<"2">>)} :
        ~InFlight(1) /\ FirstPage(sort, JSNull, limit)
  \/ ~InFlight(1) /\ loadMore
  \/ \E i \in VideoIds :
        ncalls < MaxFeedCalls /\ feed.mode # "none" /\ ~feed.resp.nextCursor.null
          /\ CallCastVote(1, TODO_MARLI_UUID, i)
  \/ \E i \in VideoIds :
        ncalls < MaxFeedCalls /\ feed.mode # "none" /\ ~feed.resp.nextCursor.null
          /\ CallUndoVote(1, "user-1", i)
  \/ CastCheckQuota(1)
  \/ CastInsert(1)
  \/ UndoDelete(1)
  \/ Resummation(1)
  \/ UpdateVoteCount(1)
  \/ Commit(1)

SpecTraverse == InitTraverse /\ [][NextTraverse]_vars

\* A listing read page by page while the admin hides videos between the pages
NextHide ==
  \/ \E sort \in Sorts, limit \in {Str(<<"1">>), Str(<<"2">>)} :
        FirstPage(sort, JSNull, limit)
  \/ loadMore
  \/ \E uid \in {v_admin, "user-1"}, i \in VideoIds :
        /\ feed.mode \in {"first", "next"} /\ ~feed.resp.nextCursor.null
        /\ admin_delete_video(uid, i)

SpecHide == InitTraverse /\ [][NextHide]_vars

\* Requests to /api/votes, one at a time, of a signed-in user and of nobody,
\* with bodies of every kind. The server has just started, or has counted
\* RateLimit requests of each user in the window that began at tick 0.
InitLedger ==
  /\ now = 0
  /\ votes = {}
  /\ vote_count = [i \in VideoIds |-> 0]
  /\ \E n \in {0, DailyLimit} : elsewhere = [u \in Voters |-> n]
  /\ trigger_installed = FALSE
  /\ tx = [p \in Procs |-> Idle]
  /\ last = CallRecord(Idle)
  /\ ncalls = 0
  /\ granted = elsewhere
  /\ videos = [i \in VideoIds |-> VideoRow(0, FALSE, 1)]
  /\ feed = NoFeed

InitRoute ==
  /\ InitLedger
  /\ clock = 0
  /\ rateLimitStore \in
       {[u \in Voters |-> NoEntry],
        [u \in Voters |-> [set |-> TRUE, count |-> RateLimit, resetAt |-> WindowTicks]]}
  /\ recent = [k \in 1..WindowTicks |-> 0]
  /\ http = NoHttp
  /\ ui = NoUi
  /\ vf = NoVf

RouteUsers == {NULL, "user-1"}

Bodies ==
  {Body(Num(1)), Body(Num(4)), Body(Num(0)), Body(Num(0 - 1)), Body(Str(<<"1">>)),
   Body(JSNull), Body(Infinity), NullBody, MalformedBody}

\* a statement of the function the route has called; no trigger is installed
RouteStatement ==
  \/ CastCheckQuota(1)
  \/ CastInsert(1)
  \/ UndoDelete(1)
  \/ Resummation(1)
  \/ UpdateVoteCount(1)
  \/ Commit(1)
  \/ Abort(1)

\* the route is free for the next request
RouteFree == http.pc \in {"idle", "done"}

NextRoute ==
  \/ \E user \in RouteUsers, body \in Bodies :
        /\ RouteFree
        /\ user # NULL => \/ rateLimitStore[user].count < MaxCalls
                           \/ rateLimitStore[user].count >= RateLimit
        /\ POST(user, body)
  \/ \E user \in RouteUsers, body \in Bodies : RouteFree /\ DELETE(user, body)
  \/ RouteReply
  \/ ClockTick
  \/ RouteStatement

SpecRoute == InitRoute /\ [][NextRoute]_vars

\* One signed-in user sends POST /api/votes {video_id: 1} again and again
\* while the server's clock advances.
InitRate == InitLedger /\ InitWeb

NextRate ==
  \/ RouteFree /\ POST("user-1", Body(Num(1)))
  \/ RouteReply
  \/ ClockTick
  \/ CastCheckQuota(1)
  \/ CastInsert(1)
  \/ Resummation(1)
  \/ UpdateVoteCount(1)
  \/ Commit(1)

SpecRate == InitRate /\ [][NextRate]_vars

\* One vote button: the page of a video, or of an id that is no video, is
\* opened and reopened, and the button is used; the server has the session's
\* user or nobody.
HookVideoIds == {1, 4, 0}

NextHook ==
  \/ \E videoId \in HookVideoIds : Mount(videoId)
  \/ \E user \in GetUser, voteError \in BOOLEAN : checkVote(user, voteError)
  \/ handleVote
  \/ \E user \in GetUser : handleVoteFetch(user)
  \/ \E user \in GetUser : http.pc = "sent" /\ http.method = "POST" /\ POST(user, http.body)
  \/ \E user \in GetUser : http.pc = "sent" /\ http.method = "DELETE" /\ DELETE(user, http.body)
  \/ RouteReply
  \/ RouteStatement
  \/ handleVoteResponse
  \/ handleVoteThrows

SpecHook == InitRate /\ [][NextHook]_vars

\* One VideoFeed over a static dataset: videos 1 and 2 of category 1, video 3
\* of category 2, all visible. The user changes sort and category and loads
\* more while responses are on their way; responses come in any order.
InitVideoFeed ==
  /\ InitFeed
  /\ \A i \in VideoIds :
        ~videos[i].hidden /\ videos[i].category_id = (IF i = 3 THEN 2 ELSE 1)

NextVideoFeed ==
  \/ VideoFeedMount
  \/ \E sort \in Sorts : handleSortChange(sort)
  \/ \E categoryId \in {Str(<<"all">>), Str(<<"1">>), Str(<<"2">>)} :
        handleCategoryChange(categoryId)
  \/ \E r \in vf.inflight : fetchVideosDone(r)
  \/ loadMoreClick
  \/ \E r \in vf.inflight : loadMoreDone(r)

SpecVideoFeed == InitVideoFeed /\ [][NextVideoFeed]_vars

----------------------------------------------------------------------------
(* Properties *)

RECURSIVE WeightOfUsers(_)
\* the sum of voter_weight over a set of voters
WeightOfUsers(users) ==
  IF users = {} THEN 0
  ELSE LET u == CHOOSE x \in users : TRUE
       IN vote_weight(u) + WeightOfUsers(users \ {u})

\* the voters with a committed vote row on a video
VotersOf(video_id) == {r.user_id : r \in RowsOfVideo(votes, video_id)}

\* the function of call p has returned (or raised): its reply is known and
\* its transaction is about to end
Replied(p, op) == tx[p].pc \in {"commit", "abort"} /\ tx[p].op = op

\* the committed tables stay as they are when call p ends
LeavesTablesAlone(p) ==
  RowsAfter(tx[p]) = votes /\ CountsAfter(tx[p]) = vote_count

QuotaError == "Daily vote limit reached"

\* C1: in every state reached by serial cast_vote and undo_vote calls, the
\* vote_count of every video is the sum of vote_weight over the vote rows
\* that exist for the video.
C1_ScoreIsSumOfWeights ==
  \A i \in VideoIds : vote_count[i] = SumWeights(RowsOfVideo(votes, i))

\* C1 witness: after a cast by a weighted voter and by another voter and an
\* undo that removed a row, a weighted vote is left on the video.
C1_Witness ==
  /\ last.op = "undo_vote" /\ last.res.flag /\ last.pre_mine = 1
  /\ \E r \in votes : r.video_id = last.video_id /\ vote_weight(r.user_id) > 1
  /\ \A p \in Procs : ~InFlight(p)

\* call q is about to commit, and the call of last ended while q ran
RacedWithLast(q) == tx[q].pc = "commit" /\ tx[q].raced

\* C2: when two calls by different voters on the same video have run
\* concurrently, the vote_count the second one commits is the sum of the
\* weights of the votes then present: it omits no committed vote.
C2_NoLostVote ==
  \A q \in Procs :
    /\ RacedWithLast(q)
    /\ last.video_id = tx[q].p_video_id
    /\ last.user_id # tx[q].v_user_id
    => CountsAfter(tx[q])[tx[q].p_video_id] =
         SumWeights(RowsOfVideo(RowsAfter(tx[q]), tx[q].p_video_id))

\* C3: a reader running while one call is in flight sees the vote rows and
\* the vote_count of the call's video as they were before the call, and at
\* any time the vote_count it sees is the sum of the weights of the vote rows
\* it sees.
C3_ReaderSeesBeforeOrAfter ==
  /\ \A i \in VideoIds :
       ReaderView(i).vote_count = WeightOfUsers(ReaderView(i).users)
  /\ \A p \in Procs :
       InFlight(p) /\ tx[p].p_video_id \in VideoIds =>
         ReaderView(tx[p].p_video_id) =
           [users |-> tx[p].pre_users, vote_count |-> tx[p].pre_count]

\* C3 witness: a cast_vote in flight that has inserted its row and written
\* its vote_count, neither committed yet.
C3_Witness ==
  \E p \in Procs : tx[p].pc = "commit" /\ tx[p].ins # {} /\ tx[p].wrote
                    /\ tx[p].upd # vote_count[tx[p].p_video_id]

\* a cast_vote by an authenticated caller for a video that exists
CastOf(p) ==
  Replied(p, "cast_vote") /\ tx[p].v_user_id \in Voters /\ tx[p].p_video_id \in VideoIds

UndoOf(p) ==
  Replied(p, "undo_vote") /\ tx[p].v_user_id \in Voters /\ tx[p].p_video_id \in VideoIds

\* call p repeats the call that ended last: same function, caller and video
RepeatsLast(p) ==
  /\ last.op = tx[p].op
  /\ last.user_id = tx[p].v_user_id
  /\ last.video_id = tx[p].p_video_id

C5_RepeatIsSilent ==
  \A p \in Procs :
    CastOf(p) /\ tx[p].pre_mine >= 1
      => /\ tx[p].res = [flag |-> FALSE, error |-> "", raised |-> FALSE]
         /\ LeavesTablesAlone(p)

\* C6: an undo_vote of an existing vote replies {unvoted: true}, removes the
\* row and lowers vote_count by vote_weight of the voter; the same call made
\* again right after leaves vote_count where it is; vote_count is never
\* below zero.
C6_UndoTwice ==
  /\ \A i \in VideoIds : vote_count[i] >= 0
  /\ \A p \in Procs :
       /\ UndoOf(p) /\ tx[p].pre_mine >= 1
            => /\ tx[p].res = [flag |-> TRUE, error |-> "", raised |-> FALSE]
               /\ RowsOfPair(RowsAfter(tx[p]), tx[p].p_video_id, tx[p].v_user_id) = {}
               /\ CountsAfter(tx[p])[tx[p].p_video_id] =
                    tx[p].pre_count - vote_weight(tx[p].v_user_id)
               /\ CountsAfter(tx[p])[tx[p].p_video_id] >= 0
       /\ UndoOf(p) /\ RepeatsLast(p) /\ last.pre_mine >= 1
            => CountsAfter(tx[p])[tx[p].p_video_id] = vote_count[tx[p].p_video_id]

\* C6 witness: the second of two undo_vote calls in a row is about to end;
\* the first one removed the vote of a weighted voter.
C6_Witness ==
  \E p \in Procs :
    /\ UndoOf(p) /\ RepeatsLast(p) /\ last.pre_mine = 1 /\ last.res.flag
    /\ vote_weight(last.user_id) > 1
    /\ tx[p].pc = "commit"

\* C7: an undo_vote for a video that exists, by a voter with no vote row on
\* it, replies {unvoted: false, error: not found} and leaves the vote rows
\* and the vote_count unchanged.
C7_UndoOfNothing ==
  \A p \in Procs :
    UndoOf(p) /\ tx[p].pre_mine = 0
      => /\ tx[p].res = [flag |-> FALSE, error |-> "Vote not found", raised |-> FALSE]
         /\ LeavesTablesAlone(p)

C9_WitnessNextDay ==
  \E p \in Procs :
    /\ CastOf(p) /\ vote_weight(tx[p].v_user_id) = 1 /\ tx[p].pre_mine = 0
    /\ tx[p].pre_total >= DailyLimit /\ tx[p].pre_daily = 0 /\ tx[p].res.flag

C11_QuotaBoundsGrants ==
  \A u \in Voters : vote_weight(u) = 1 => granted[u] <= DailyLimit

\* C12 as stated: whatever the interleaving of the concurrent cast_vote calls
\* of one voter of weight 1 on different videos, the voter never has more
\* than 201 vote rows created on one UTC day.
C12_AtMostOneOver ==
  \A u \in Voters : vote_weight(u) = 1 /\ u \notin ADMIN_USER_IDS
     => VotesOnDayOf(votes, u, now) <= DailyLimit + 1

\* C12 amended: the quota is exceeded by at most one vote less than the
\* number of cast_vote calls that run at once (the connections).
C12_OverByConcurrency ==
  \A u \in Voters : vote_weight(u) = 1 /\ u \notin ADMIN_USER_IDS
     => VotesOnDayOf(votes, u, now) <= DailyLimit + Cardinality(Procs) - 1

\* C12 witness: three concurrent cast_vote calls of the ordinary user, who
\* had 199 votes of the day, have all committed their row.
C12_Witness ==
  /\ VotesOnDayOf(votes, "user-1", now) = DailyLimit + Cardinality(Procs) - 1
  /\ \A i \in VideoIds : RowsOfPair(votes, i, "user-1") # {}
  /\ last.op = "cast_vote" /\ last.res.flag /\ last.raced

\* the listing of the last request has reached its end
TraversalEnded ==
  feed.mode \in {"first", "next"} /\ feed.resp.status = 200 /\ feed.resp.nextCursor.null

\* the videos a listing must show: visible, of the category asked for
Eligible(req) ==
  {i \in VideoIds :
     /\ ~videos[i].hidden
     /\ req.category_id # JSNull => NumToString(videos[i].category_id) = req.category_id.s}

\* video i comes before video j in the order of the mode: rank_score,
\* created_at, id, each descending, in ranked mode; created_at, id in newest
ComesBefore(i, j, sort) ==
  LET ri == IF sort = Str(<<"votes">>) THEN vote_count[i] ELSE 0
      rj == IF sort = Str(<<"votes">>) THEN vote_count[j] ELSE 0
  IN \/ ri > rj
     \/ ri = rj /\ videos[i].created_at > videos[j].created_at
     \/ ri = rj /\ videos[i].created_at = videos[j].created_at /\ i > j

\* two videos with the same rank_score and the same created_at
Tied(i, j) ==
  i # j /\ vote_count[i] = vote_count[j] /\ videos[i].created_at = videos[j].created_at

\* C13: when a listing of a static dataset, followed from its first page
\* through every next_cursor, has ended, the pages put together hold every
\* visible video of the category asked for, each once, in the order of the
\* mode.
C13_PagesCoverDataset ==
  TraversalEnded =>
    /\ {feed.seen[k] : k \in 1..Len(feed.seen)} = Eligible(feed.req)
    /\ Len(feed.seen) = Cardinality(Eligible(feed.req))
    /\ \A k \in 1..(Len(feed.seen) - 1) :
          ComesBefore(feed.seen[k], feed.seen[k + 1], feed.req.sort)

\* C13 witness: a ranked listing of three visible videos, two of them tied,
\* was read in pages of one and has ended.
C13_Witness ==
  /\ TraversalEnded /\ feed.mode = "next"
  /\ feed.req.sort = Str(<<"votes">>) /\ feed.req.limit = Str(<<"1">>)
  /\ Len(feed.seen) = 3
  /\ \E i, j \in VideoIds : Tied(i, j)

\* the last response is a page of a request whose limit is a page size
PageReturned == feed.mode # "none" /\ feed.resp.status = 200 /\ Limit(feed.req).kind = "num"

\* C15: a request made again on the unchanged dataset gets the same videos
\* in the same order, and two tied videos of a page come with the larger id
\* first.
C15_SameOrderEveryTime ==
  /\ feed.mode = "again" /\ Limit(feed.req).kind = "num" => feed.resp = feed.prev
  /\ PageReturned =>
       \A j, k \in 1..Len(feed.resp.videos) :
          j < k /\ Tied(feed.resp.videos[j].id, feed.resp.videos[k].id)
            => feed.resp.videos[j].id > feed.resp.videos[k].id

\* C15 witness: a request was repeated and its page holds two tied videos.
C15_Witness ==
  /\ feed.mode = "again" /\ PageReturned
  /\ \E j, k \in 1..Len(feed.resp.videos) :
        j < k /\ Tied(feed.resp.videos[j].id, feed.resp.videos[k].id)

\* the dataset of the worked example: A = video 1 and B = video 2 with rank 5
\* created at t1 = 1, C = video 3 with rank 3 created at t2 = 0, all visible
WorkedExample ==
  /\ vote_count = <<5, 5, 3>>
  /\ videos[1].created_at = 1 /\ videos[2].created_at = 1 /\ videos[3].created_at = 0
  /\ \A i \in VideoIds : ~videos[i].hidden
  /\ feed.req.sort = Str(<<"votes">>) /\ feed.req.limit = Str(<<"2">>)
  /\ feed.req.category_id = JSNull

\* C16: on the worked example, in ranked mode with pages of 2, the first page
\* is [B, A] with next_cursor (5, t1, 1) and the page of that cursor is [C]
\* with no next_cursor.
C16_WorkedExample ==
  /\ WorkedExample /\ feed.mode = "first" =>
       /\ Ids(feed.resp.videos) = <<2, 1>>
       /\ feed.resp.nextCursor =
            [null |-> FALSE, vote_count |-> Num(5), created_at |-> Str(<<"1">>),
             id |-> Num(1)]
  /\ WorkedExample /\ feed.mode = "next" =>
       /\ Ids(feed.resp.videos) = <<3>>
       /\ feed.resp.nextCursor.null

\* C16 witness: the second page of the worked example has been fetched.
C16_Witness ==
  WorkedExample /\ feed.mode = "next" /\ feed.resp.status = 200 /\ feed.seen = <<2, 1, 3>>

\* C17: a page has a next_cursor exactly when it holds page_size videos, and
\* the cursor is the sort key of its last video: (vote_count, created_at, id)
\* in ranked mode, (created_at, id) in newest mode.
C17_CursorOnFullPage ==
  PageReturned =>
    LET page == feed.resp.videos
        cursor == feed.resp.nextCursor
        lastVideo == page[Len(page)]
    IN /\ ~cursor.null <=> Len(page) = Limit(feed.req).n
       /\ ~cursor.null =>
            /\ cursor.id = Num(lastVideo.id)
            /\ cursor.created_at = Str(TimestampToString(videos[lastVideo.id].created_at))
            /\ cursor.vote_count =
                 IF SortBy(feed.req) = Str(<<"votes">>)
                   THEN Num(vote_count[lastVideo.id]) ELSE JSNull

\* C17 witness: a full page in newest mode, and so a cursor of two fields.
C17_Witness ==
  /\ PageReturned /\ feed.req.sort = Str(<<"newest">>)
  /\ Len(feed.resp.videos) = 2 /\ Limit(feed.req).n = 2
  /\ ~feed.resp.nextCursor.null

\* C18: whatever the limit parameter, the page size GET applies to the query
\* is an integer from 1 to 50.
C18_LimitClamped ==
  feed.mode # "none" => Limit(feed.req).kind = "num" /\ Limit(feed.req).n \in 1..50

IsNumeral(param) == param.kind = "str" /\ param.s # <<>> /\ \A k \in 1..Len(param.s) : IsDigit(param.s[k])

CompleteBoundary(req) ==
  /\ IsNumeral(req.cursor_id)
  /\ IsNumeral(req.cursor_created_at)
  /\ IF SortBy(req) = Str(<<"votes">>) THEN IsNumeral(req.cursor_vote_count)
     ELSE req.cursor_vote_count = JSNull

WithoutCursor(req) == [req EXCEPT !.cursor_vote_count = JSNull,
                                  !.cursor_created_at = JSNull, !.cursor_id = JSNull]

\* C20: a request whose cursor parameters are not a complete well-formed
\* boundary of its sort mode gets the first page, and no error.
C20_BadCursorIsFirstPage ==
  feed.mode = "any" /\ ~CompleteBoundary(feed.req) /\ Limit(feed.req).kind = "num"
    => /\ feed.resp.status = 200
       /\ feed.resp \in GETResponses(WithoutCursor(feed.req))

\* the number of times video i is in the pages received
TimesSeen(i) == Cardinality({k \in 1..Len(feed.seen) : feed.seen[k] = i})

\* C14: when a ranked listing, read page by page while votes are cast and
\* undone between the pages, has ended, every video (all of them stay
\* visible) has been returned exactly once.
C14_RankedStableUnderVotes ==
  TraversalEnded /\ feed.req.sort = Str(<<"votes">>)
    => \A i \in VideoIds : TimesSeen(i) = 1

\* C29: when a newest listing, read page by page while votes are cast and
\* undone between the pages, has ended, every video (all of them stay
\* visible) has been returned exactly once, in the order created_at
\* descending, id descending.
C29_NewestStableUnderVotes ==
  TraversalEnded /\ feed.req.sort = Str(<<"newest">>)
    => /\ \A i \in VideoIds : TimesSeen(i) = 1
       /\ \A k \in 1..(Len(feed.seen) - 1) :
             ComesBefore(feed.seen[k], feed.seen[k + 1], feed.req.sort)

\* C29 witness: a newest listing in pages of one has ended, and a vote cast
\* after its first page has changed a vote_count.
C29_Witness ==
  /\ TraversalEnded /\ feed.req.sort = Str(<<"newest">>) /\ feed.req.limit = Str(<<"1">>)
  /\ Len(feed.seen) = 3
  /\ last.op = "cast_vote" /\ last.res.flag
  /\ \E i, j \in VideoIds : i # j /\ videos[i].created_at = videos[j].created_at

\* C28: a listing of a static dataset of n eligible videos is over within
\* n \div page_size + 1 requests; when n is a positive multiple of page_size
\* the last request returns an empty page.
C28_ListingEnds ==
  /\ feed.mode \in {"first", "next"} /\ feed.resp.status = 200
  /\ Limit(feed.req).kind = "num"
  =>
    LET n == Cardinality(Eligible(feed.req))
        page_size == Limit(feed.req).n
    IN /\ feed.pages <= n \div page_size + 1
       /\ feed.pages = n \div page_size + 1 => feed.resp.nextCursor.null
       /\ feed.pages < n \div page_size + 1 => ~feed.resp.nextCursor.null
       /\ TraversalEnded /\ n > 0 /\ n % page_size = 0
            => feed.resp.videos = <<>> /\ feed.pages = n \div page_size + 1

\* C28 witness: two eligible videos read in pages of two: the second request
\* has returned an empty page and no cursor.
C28_Witness ==
  /\ TraversalEnded /\ feed.pages = 2 /\ feed.resp.videos = <<>>
  /\ Cardinality(Eligible(feed.req)) = 2 /\ Limit(feed.req).n = 2

\* the boundary of a request with a complete cursor, as a row of sort keys
BoundaryOf(req) ==
  [vote_count |-> CursorVoteCount(req).n,
   created_at |-> TimestampOfLiteral(CursorCreatedAt(req).s),
   id |-> CursorId(req).n]

RECURSIVE LexLess(_, _)
\* tuple a is lexicographically less than tuple b
LexLess(a, b) ==
  /\ a # <<>>
  /\ \/ Head(a) < Head(b)
     \/ Head(a) = Head(b) /\ LexLess(Tail(a), Tail(b))

\* C26: for every row and every request with a complete cursor, the cursor
\* filter accepts the row exactly when the row's sort key is less than the
\* boundary, (vote_count, created_at, id) in ranked mode and (created_at, id)
\* in newest mode, which is when ORDER BY puts the row after the boundary.
C26_FilterIsTupleComparison ==
  feed.mode # "none" /\ HasCursorFilter(feed.req) /\ ~FilterUnreadable(feed.req) =>
    LET b == BoundaryOf(feed.req) IN
    \A i \in VideoIds :
      LET row == Item(i)
          accepted ==
            IF SortBy(feed.req) = Str(<<"votes">>)
              THEN voteFilterParts(row, b.vote_count, b.created_at, b.id)
              ELSE newestFilterParts(row, b.created_at, b.id)
          less ==
            IF SortBy(feed.req) = Str(<<"votes">>)
              THEN LexLess(<<row.vote_count, row.created_at, row.id>>,
                           <<b.vote_count, b.created_at, b.id>>)
              ELSE LexLess(<<row.created_at, row.id>>, <<b.created_at, b.id>>)
      IN /\ accepted <=> less
         /\ accepted <=> SortsBefore(b, row, OrderBy(SortBy(feed.req)))

\* C26 witness: a ranked request with a complete cursor, and a row that ties
\* with the boundary on vote_count and created_at and has a smaller id.
C26_Witness ==
  /\ feed.mode # "none" /\ HasCursorFilter(feed.req) /\ ~FilterUnreadable(feed.req)
  /\ SortBy(feed.req) = Str(<<"votes">>)
  /\ \E i \in VideoIds :
       /\ vote_count[i] = BoundaryOf(feed.req).vote_count
       /\ videos[i].created_at = BoundaryOf(feed.req).created_at
       /\ i < BoundaryOf(feed.req).id

\* the videos not hidden when the last request was served that come strictly
\* after its cursor boundary
VisibleAfterBoundary ==
  {i \in VideoIds \ feed.hidden :
     SortsBefore(BoundaryOf(feed.req), Item(i), OrderBy(SortBy(feed.req)))}

\* C21: with videos hidden between the pages of a listing, every later page
\* is served without error, holds no video hidden by then, and holds the
\* first page_size visible videos that come strictly after the cursor
\* boundary, also when the boundary is the key of a hidden video.
C21_HiddenVanish ==
  feed.mode = "next" =>
    LET page == {feed.resp.videos[k].id : k \in 1..Len(feed.resp.videos)} IN
    /\ feed.resp.status = 200
    /\ page \cap feed.hidden = {}
    /\ page \subseteq VisibleAfterBoundary
    /\ Cardinality(page) = Len(feed.resp.videos)
    /\ Len(feed.resp.videos) =
         IF Cardinality(VisibleAfterBoundary) < Limit(feed.req).n
           THEN Cardinality(VisibleAfterBoundary) ELSE Limit(feed.req).n
    /\ \A i \in page, j \in VisibleAfterBoundary \ page :
         ComesBefore(i, j, feed.req.sort)

\* C21 witness: the video whose key is the cursor was hidden before the page
\* was fetched, and the page holds a video.
C21_Witness ==
  /\ feed.mode = "next" /\ feed.resp.status = 200
  /\ CursorId(feed.req).n \in feed.hidden
  /\ feed.resp.videos # <<>>

\* C23: a cast_vote for a video id that does not exist replies with a
\* not-found result, neither raising nor replying {voted: true}, and leaves
\* the vote rows, and with them the voter's count of the day, unchanged.
C23_MissingVideoIsNotFound ==
  \A p \in Procs :
    Replied(p, "cast_vote") /\ tx[p].v_user_id \in Voters
      /\ tx[p].p_video_id \notin VideoIds /\ tx[p].pre_daily < DailyLimit
      => /\ ~tx[p].res.raised
         /\ ~tx[p].res.flag
         /\ tx[p].res.error \notin {"", "Daily vote limit reached"}
         /\ LeavesTablesAlone(p)

\* the value is no finite positive number
NotFinitePositive(video_id) == ~(video_id.kind = "num" /\ video_id.n > 0)

\* the route has a request of nobody, or one whose video_id is no finite
\* positive number
Rejected(h) ==
  h.pc # "idle" /\ (h.user = NULL \/ NotFinitePositive(h.body.video_id))

\* C22 as stated: a request of nobody, or with a video_id that is no finite
\* positive number, is answered 401 or 400.
C22_Rejected401Or400 ==
  Rejected(http) => http.pc = "done" /\ http.status \in {401, 400}

\* C22: a request of nobody is answered 401; a request of a signed-in user
\* with a video_id that is no finite positive number is answered 429 when it
\* is a POST beyond the rate limit, else 500 when its body is no JSON object,
\* else 400. In each case neither cast_vote nor undo_vote is called and the
\* vote rows and every vote_count stay as they are.
C22_RejectedBeforeRpc ==
  /\ [](Rejected(http) =>
          /\ http.pc = "done" /\ ~http.rpc
          /\ http.status =
               IF http.user = NULL THEN 401
               ELSE IF http.method = "POST" /\ http.count > RateLimit THEN 429
               ELSE IF http.body.kind # "object" THEN 500
               ELSE 400)
  /\ [][Rejected(http') /\ http' # http
          => tx' = tx /\ votes' = votes /\ vote_count' = vote_count]_vars

\* C22 witness: a vote row exists and a signed-in user's request with
\* video_id 0 has been answered 400.
C22_Witness ==
  /\ http.pc = "done" /\ http.status = 400 /\ http.user # NULL
  /\ http.body = Body(Num(0))
  /\ votes # {}

RECURSIVE SumFrom(_, _)
\* the sum of the elements k, k + 1, ... of a sequence of numbers
SumFrom(seq, k) == IF k > Len(seq) THEN 0 ELSE seq[k] + SumFrom(seq, k + 1)

\* the cast_vote calls made for POST requests in the last minute: the
\* WindowTicks clock ticks up to the current one
CallsInLastMinute == SumFrom(recent, 1)

\* the cast_vote calls made for POST requests since the limiter's window of
\* the user began (the window is one minute long and has not ended)
CallsInWindow(user) ==
  LET first == rateLimitStore[user].resetAt - clock IN
  SumFrom(recent, IF first < 1 THEN 1 ELSE first)

\* C27 as stated: in any interval of one minute at most RateLimit POST
\* requests of the user pass checkRateLimit and reach cast_vote.
C27_AnyMinute == CallsInLastMinute <= RateLimit

\* C27: in each window of the limiter, one minute from the user's first
\* request after the end of the window before, at most RateLimit POST
\* requests of the user pass checkRateLimit and reach cast_vote; every
\* further request in that window is answered 429 'Too many requests'
\* without a call of cast_vote. Across the end of a window one minute can
\* hold up to twice as many calls.
C27_FixedWindow ==
  LET e == rateLimitStore["user-1"] IN
  /\ e.set /\ clock < e.resetAt => CallsInWindow("user-1") <= RateLimit
  /\ CallsInLastMinute <= 2 * RateLimit
  /\ http.pc # "idle" /\ http.method = "POST" /\ http.user # NULL =>
       /\ http.count > RateLimit <=> http.status = 429 /\ http.error = "Too many requests"
       /\ http.count > RateLimit => ~http.rpc /\ tx[1].pc = "idle"

\* C27 witness: the user's request beyond the limit has been answered 429
\* after RateLimit calls of cast_vote in the same window.
C27_Witness ==
  /\ http.pc = "done" /\ http.status = 429 /\ http.error = "Too many requests"
  /\ clock < rateLimitStore["user-1"].resetAt
  /\ CallsInWindow("user-1") = RateLimit

\* a handleVote call has ended in failure with this step
EndsInFailure == ui.pc = "fetch" /\ ui'.pc = "idle" /\ ui'.outcome = "failed"

\* C24: when a handleVote call ends in failure (a response that is not OK,
\* or fetch throwing), voteCount and hasVoted are what they were when the
\* call started and isVoting is false.
C24_FailureRollsBack ==
  [][EndsInFailure =>
       /\ ui'.voteCount = ui.previousCount
       /\ ui'.hasVoted = ui.previousHasVoted
       /\ ~ui'.isVoting]_vars

\* C24 witness: a vote was refused for the daily cap (429) and the count
\* shown is the one before the call, with hasVoted and isVoting false.
C24_Witness ==
  /\ ui.pc = "idle" /\ ui.outcome = "failed" /\ ui.response.status = 429
  /\ ui.request = "POST"
  /\ ui.voteCount = ui.previousCount /\ ~ui.hasVoted /\ ~ui.isVoting

\* C25: after a handleVote call, voteCount is its value before the call
\* plus one only if cast_vote replied voted: true, minus one only if the
\* server replied unvoted: true, and the value before the call for every
\* other reply.
C25_CountFollowsServer ==
  ui.pc = "idle" /\ ui.outcome # "none" =>
    LET d == ui.voteCount - ui.previousCount
        created == ui.request = "POST" /\ ui.response.status = 200 /\ ui.response.data.flag
        removed == ui.request = "DELETE" /\ ui.response.status = 200 /\ ui.response.data.flag
    IN /\ d = 1 => created
       /\ d = 0 - 1 => removed
       /\ ~created /\ ~removed => d = 0

\* C30: when VideoFeed has no request in flight, its videos all came with
\* responses to requests made under the sort and category now selected, and
\* so did its nextCursor.
C30_OnlyCurrentSelection ==
  vf.pc = "mounted" /\ vf.inflight = {} =>
    /\ vf.videosSel \subseteq {<<vf.sort, vf.category_id>>}
    /\ vf.cursorSel = <<vf.sort, vf.category_id>>

====
